---- MODULE Spec2Model ----
(***************************************************************************)
(* A state-machine model of the annotation converters of obj_detec:        *)
(*   Pascal_to_coco.py / voc_to_coco.py   pascal_voc_to_coco               *)
(*   Pascal_to_yolo.py                    pascal_voc_to_yolo               *)
(*   Yolo_to_coco.py                      convert_yolo_to_coco             *)
(*   coco_to_yolo.py                      convert_coco_to_yolo             *)
(*   coco_to_yolo_split.py                convert_coco_to_yolo (split)     *)
(*   coco_to_yoloo.py                     convert_coco_to_yolo (fixed)     *)
(*   Coco_to_pascal.py                    convert_coco_to_pascal_voc       *)
(*   Yolo_to_pascal.py                    convert_yolo_to_pascal_voc       *)
(* One behaviour is one run of one script (prog), from its start to the    *)
(* end of its main loop; a script that appends to its output may be run a  *)
(* second time on the same input.                                          *)
(***************************************************************************)
EXTENDS Integers, Sequences, FiniteSets, TLC

VARIABLES
    prog,               \* the script that is run
    pc,                 \* "start" | "loop" | "done" | "crashed" | "raised"
    run,                \* 1 for the first run of the script, 2 for a re-run
    data,               \* the JSON catalog loaded by the coco_* scripts
    disk,               \* the catalog's image files that exist and can be read
    val_split,          \* the val_split argument, a fraction <<num, den>>
    artifact,           \* the input directory holds the file the script's top looks
                        \* for: a .json catalog, or classes.txt
    nfiles,             \* len(xml_files) / len(os.listdir(yolo_img_dir))
    idx,                \* number of loop iterations done
    coco_annotations,   \* the dict built by the *_to_coco scripts
    category_mapping,   \* category_mapping / class_mapping (insertion order)
    annotation_id,      \* the annotation_id counter
    catalog,            \* the written JSON file: <<>> or <<coco_annotations>>
    labels,             \* label files: [dir, name] -> sequence of lines
    classes_txt,        \* the written classes.txt: <<>> or <<names>>
    xml_out,            \* XML files: name -> [filename, width, height, objects]
    out_dirs,           \* the output directories made by os.makedirs
    val_ids,            \* the split's validation ids
    test_ids,           \* the split's test ids
    prev_val_ids,       \* val_ids of the previous run of the split script
    observed,           \* history: the objects / label lines read so far, in order
    rt                  \* the state of the box-algebra specifications

inVars  == <<prog, data, disk, val_split, artifact>>
ctlVars == <<pc, run, nfiles, idx>>
memVars == <<coco_annotations, category_mapping, annotation_id, observed>>
outVars == <<catalog, labels, classes_txt, xml_out, out_dirs>>
splVars == <<val_ids, test_ids, prev_val_ids>>
vars    == <<inVars, ctlVars, memVars, outVars, splVars, rt>>

-----------------------------------------------------------------------------
(* Bounds of the model. *)

\* xml files / image files in the input directory
MaxFiles == 2
\* objects or label lines read in one run of a directory-reading script
MaxRecords == 3
\* annotations in a JSON catalog
MaxAnns == 2

SeqsUpTo(S, n) == UNION {[1..k -> S] : k \in 0..n}

Range(s) == {s[i] : i \in 1..Len(s)}

Abs(i) == IF i < 0 THEN -i ELSE i

-----------------------------------------------------------------------------
(* Python dicts: a sequence of [k, v] entries in insertion order. *)

EmptyDict == <<>>

DictKeys(d) == [i \in 1..Len(d) |-> d[i].k]

DictHas(d, key) == \E i \in 1..Len(d) : d[i].k = key

DictGet(d, key) == d[CHOOSE i \in 1..Len(d) : d[i].k = key].v

\* d[key] = v: a new key is appended, an old key keeps its place
DictSet(d, key, v) ==
    IF DictHas(d, key)
    THEN [i \in 1..Len(d) |-> IF d[i].k = key THEN [k |-> key, v |-> v] ELSE d[i]]
    ELSE Append(d, [k |-> key, v |-> v])

\* {e.k: e.v for e in s}: later entries overwrite earlier ones
RECURSIVE DictOf(_)
DictOf(s) ==
    IF s = <<>> THEN EmptyDict
    ELSE DictSet(DictOf(SubSeq(s, 1, Len(s) - 1)), s[Len(s)].k, s[Len(s)].v)

-----------------------------------------------------------------------------
(* File names: a stem and an extension.  The stems hold no ".jpg"/".png". *)

FileNames == {[stem |-> "a", ext |-> ".jpg"], [stem |-> "b", ext |-> ".png"]}

\* name.replace(".jpg", to)
ReplaceJpg(name, to) == IF name.ext = ".jpg" THEN [name EXCEPT !.ext = to] ELSE name

\* name.replace(".png", to)
ReplacePng(name, to) == IF name.ext = ".png" THEN [name EXCEPT !.ext = to] ELSE name

\* os.path.splitext(name)[0] + to
SplitExt(name, to) == [name EXCEPT !.ext = to]

NoFiles == [k \in {} |-> <<>>]

\* open(name, "w").write(content)
WriteFile(fs, name, content) ==
    [k \in DOMAIN fs \cup {name} |-> IF k = name THEN content ELSE fs[k]]

\* open(name, "a").write(line)
AppendFile(fs, name, line) ==
    [k \in DOMAIN fs \cup {name} |->
        IF k = name
        THEN (IF name \in DOMAIN fs THEN Append(fs[name], line) ELSE <<line>>)
        ELSE fs[k]]

\* the directories each script makes with os.makedirs
OutputDirs(p) ==
    CASE p = "pascal_to_coco" -> {"coco_dir"}
      [] p \in {"pascal_to_yolo", "coco_to_yolo", "coco_to_yoloo"} -> {"labels", "images"}
      [] p = "yolo_to_coco" -> {"OUTPUT_DIR"}
      [] p = "coco_to_yolo_split" ->
            {"YOLO_Test/images", "YOLO_Test/labels", "YOLO_Val/images", "YOLO_Val/labels"}
      [] p \in {"coco_to_pascal", "yolo_to_pascal"} -> {"JPEGImages", "Annotations"}

\* os.makedirs(d, exist_ok=True) for each directory of the script
MakeDirs(dirs, p) == dirs \cup OutputDirs(p)

-----------------------------------------------------------------------------
(* The images the directory-reading scripts open. *)

ImageSizes == {[width |-> 4, height |-> 4]}

ObjectNames == {"dog", "cat"}

\* bndbox of an XML object: a valid box, xmax = xmin, ymax < ymin
VocBoxes ==
    { [xmin |-> 1, ymin |-> 1, xmax |-> 3, ymax |-> 4],
      [xmin |-> 2, ymin |-> 1, xmax |-> 2, ymax |-> 3],
      [xmin |-> 1, ymin |-> 3, xmax |-> 3, ymax |-> 1] }

VocObjects == [name : ObjectNames, bndbox : VocBoxes]

\* A variant that lets a box without width or height pass.
MutInvalidBox(b) == b.xmax < b.xmin \/ b.ymax < b.ymin

\* if xmax <= xmin or ymax <= ymin: continue
InvalidBox(b) == b.xmax <= b.xmin \/ b.ymax <= b.ymin

\* history of a pass over the objects of a file: each object's name, and
\* whether its box passed the check
ObservedObjects(objs) ==
    [i \in 1..Len(objs) |-> [name |-> objs[i].name, valid |-> ~InvalidBox(objs[i].bndbox)]]

EmptyCoco == [images |-> <<>>, annotations |-> <<>>, categories |-> <<>>]

-----------------------------------------------------------------------------
(* Numbers.  A float is modelled by the rational it approximates; the      *)
(* 53-bit rounding of a single operation is far below every margin the     *)
(* claims speak of and is left out, except in the 6-decimal formatting,    *)
(* where it decides the direction of a tie.                                *)

\* "{v:.6f}": the unit of the printed label values is 10^-6
Micro == 1000000

RECURSIVE GCD(_, _)
GCD(a, b) == IF b = 0 THEN a ELSE GCD(b, a % b)

RECURSIVE IsPow2(_)
IsPow2(n) == IF n = 1 THEN TRUE ELSE IF n % 2 # 0 THEN FALSE ELSE IsPow2(n \div 2)

\* num/den is a binary fraction: the float division is exact
Dyadic(num, den) == IsPow2(den \div GCD(num, den))

TieDirs == {"down", "up"}

\* one direction for each of the four printed values
Ties == [{"xc", "yc", "w", "h"} -> TieDirs]

\* A variant that cuts the digits after the sixth instead of rounding.
MutFmt6(num, den, tie) == (num * Micro) \div den

\* f"{num/den:.6f}" in units of 10^-6, for num >= 0 and den > 0: the decimal
\* nearest to the float.  An exact tie of an exact float goes to the even
\* digit; a tie of an inexact float goes where the float's error points (tie).
Fmt6(num, den, tie) ==
    LET q == (num * Micro) \div den
        r == (num * Micro) % den
    IN  IF 2 * r < den THEN q
        ELSE IF 2 * r > den THEN q + 1
        ELSE IF Dyadic(num, den) THEN (IF q % 2 = 0 THEN q ELSE q + 1)
        ELSE IF tie = "down" THEN q ELSE q + 1

\* A variant that divides x by the height and y by the width.
MutNormalizedFromCorner(b, width, height, tie) ==
    [xc |-> Fmt6(b.xmin + b.xmax, 2 * height, tie["xc"]),
     yc |-> Fmt6(b.ymin + b.ymax, 2 * width, tie["yc"]),
     w  |-> Fmt6(b.xmax - b.xmin, height, tie["w"]),
     h  |-> Fmt6(b.ymax - b.ymin, width, tie["h"])]

\* Pascal_to_yolo.py: corner box -> the four printed values (units of 10^-6)
NormalizedFromCorner(b, width, height, tie) ==
    [xc |-> Fmt6(b.xmin + b.xmax, 2 * width, tie["xc"]),
     yc |-> Fmt6(b.ymin + b.ymax, 2 * height, tie["yc"]),
     w  |-> Fmt6(b.xmax - b.xmin, width, tie["w"]),
     h  |-> Fmt6(b.ymax - b.ymin, height, tie["h"])]

\* Yolo_to_coco.py: label values (units of 10^-6) -> bbox [x, y, w, h], each a
\* rational n/d of pixels:
\*   x, y = (x_center - w / 2) * img_w, (y_center - h / 2) * img_h
\*   w, h = w * img_w, h * img_h
CocoFromNormalized(xc, yc, w, h, img_w, img_h) ==
    [x |-> [n |-> (2 * xc - w) * img_w, d |-> 2 * Micro],
     y |-> [n |-> (2 * yc - h) * img_h, d |-> 2 * Micro],
     w |-> [n |-> w * img_w, d |-> Micro],
     h |-> [n |-> h * img_h, d |-> Micro]]

\* Catalog numbers (JSON ints or floats) are counted in 1/Sub of a pixel.
Sub == 2

Px(n) == n * Sub

\* int(v): truncation toward zero, in whole pixels
IntTrunc(v) == IF v >= 0 THEN v \div Sub ELSE -((-v) \div Sub)

\* A variant whose far corner is the last pixel inside the box.
MutCornerFromOriginSize(bbox) ==
    [xmin |-> IntTrunc(bbox.x), ymin |-> IntTrunc(bbox.y),
     xmax |-> IntTrunc(bbox.x + bbox.w) - 1, ymax |-> IntTrunc(bbox.y + bbox.h) - 1]

\* Coco_to_pascal.py: xmin, ymin, xmax, ymax = int(x), int(y), int(x + w), int(y + h)
CornerFromOriginSize(bbox) ==
    [xmin |-> IntTrunc(bbox.x), ymin |-> IntTrunc(bbox.y),
     xmax |-> IntTrunc(bbox.x + bbox.w), ymax |-> IntTrunc(bbox.y + bbox.h)]

\* Pascal_to_coco.py: "bbox": [xmin, ymin, xmax - xmin, ymax - ymin] (pixels)
OriginSizeFromCorner(b) ==
    [x |-> b.xmin, y |-> b.ymin, w |-> b.xmax - b.xmin, h |-> b.ymax - b.ymin]

\* coco_to_yolo*.py: the label values as rationals n/d
\*   x_center, y_center = (x + w / 2) / img_w, (y + h / 2) / img_h
\*   w, h = w / img_w, h / img_h
NormalizedFromOriginSize(bbox, img_w, img_h) ==
    [xc |-> [n |-> 2 * bbox.x + bbox.w, d |-> 2 * Sub * img_w],
     yc |-> [n |-> 2 * bbox.y + bbox.h, d |-> 2 * Sub * img_h],
     w  |-> [n |-> bbox.w, d |-> Sub * img_w],
     h  |-> [n |-> bbox.h, d |-> Sub * img_h]]

-----------------------------------------------------------------------------
(* pascal_voc_to_coco (Pascal_to_coco.py; voc_to_coco.py is the same code). *)

\* A variant that numbers the names from 0 in the catalog too.
MutDiscoveryId(mapping) == Len(mapping)

\* category_id = len(category_mapping) + 1
DiscoveryId(mapping) == Len(mapping) + 1

\* annotation_id += 1, after an annotation is appended
NextAnnotationId(aid) == aid + 1

\* A variant in which a skipped object takes an id.
MutSkippedAnnotationId(aid) == aid + 1

\* "continue" before the append: annotation_id is left as it is
SkippedAnnotationId(aid) == aid

\* One pass of "for obj in root.findall('object')" from object k on.
\* st = [mapping, coco, aid]
RECURSIVE P2CObjects(_, _, _, _)
P2CObjects(objs, image_id, st, k) ==
    IF k > Len(objs) THEN st
    ELSE
      LET category == objs[k].name
          known == DictHas(st.mapping, category)
          category_id == IF known THEN DictGet(st.mapping, category)
                         ELSE DiscoveryId(st.mapping)
          st1 == IF known THEN st
                 ELSE [st EXCEPT
                         !.mapping = DictSet(@, category, category_id),
                         !.coco.categories =
                             Append(@, [id |-> category_id, name |-> category])]
          b == objs[k].bndbox
      IN  IF InvalidBox(b)
          THEN P2CObjects(objs, image_id,
                          [st1 EXCEPT !.aid = SkippedAnnotationId(@)], k + 1)
          ELSE P2CObjects(objs, image_id,
                 [st1 EXCEPT
                    !.coco.annotations =
                        Append(@, [id |-> st1.aid, image_id |-> image_id,
                                   category_id |-> category_id,
                                   bbox |-> OriginSizeFromCorner(b),
                                   area |-> (b.xmax - b.xmin) * (b.ymax - b.ymin),
                                   iscrowd |-> 0]),
                    !.aid = NextAnnotationId(@)],
                 k + 1)

\* Objects read so far in this run (the bound of the model on their number)
NRead == Len(observed)

\* os.makedirs(coco_dir); xml_files = [...]; if len(xml_files) == 0: return
P2CStart ==
    /\ prog = "pascal_to_coco" /\ pc = "start"
    /\ out_dirs' = MakeDirs(out_dirs, prog)
    /\ \E n \in 0..MaxFiles :
         /\ nfiles' = n
         /\ pc' = IF n = 0 THEN "done" ELSE "loop"
    /\ UNCHANGED <<inVars, run, idx, memVars, catalog, labels, classes_txt, xml_out,
                   splVars, rt>>

\* One iteration of "for idx, xml_file in enumerate(xml_files)": the file
\* does not parse, or its image is not found, or it is converted.
P2CFile ==
    /\ prog = "pascal_to_coco" /\ pc = "loop" /\ idx < nfiles
    /\ idx' = idx + 1
    /\ \/ UNCHANGED memVars
       \/ \E filename \in FileNames, size \in ImageSizes,
             objs \in SeqsUpTo(VocObjects, MaxRecords - NRead) :
            LET image_id == idx + 1
                st0 == [mapping |-> category_mapping,
                        coco |-> [coco_annotations EXCEPT !.images =
                                    Append(@, [id |-> image_id, file_name |-> filename,
                                               width |-> size.width,
                                               height |-> size.height])],
                        aid |-> annotation_id]
                st == P2CObjects(objs, image_id, st0, 1)
            IN  /\ category_mapping' = st.mapping
                /\ coco_annotations' = st.coco
                /\ annotation_id' = st.aid
                /\ observed' = observed \o ObservedObjects(objs)
    /\ UNCHANGED <<inVars, pc, run, nfiles, outVars, splVars, rt>>

\* json.dump(coco_annotations, f)
P2CFinish ==
    /\ prog = "pascal_to_coco" /\ pc = "loop" /\ idx = nfiles
    /\ catalog' = <<coco_annotations>>
    /\ pc' = "done"
    /\ UNCHANGED <<inVars, run, nfiles, idx, memVars, labels, classes_txt, xml_out,
                   out_dirs, splVars, rt>>

-----------------------------------------------------------------------------
(* pascal_voc_to_yolo (Pascal_to_yolo.py). *)

LabelsDir == "labels"

\* class_mapping[class_name] = len(class_mapping)
DiscoveryIndex(mapping) == Len(mapping)

\* st = [mapping, lines]; a line is "cls xc yc w h", and "of" is history: the
\* category name of the object the line was made from
RECURSIVE P2YObjects(_, _, _, _, _)
P2YObjects(objs, size, tie, st, k) ==
    IF k > Len(objs) THEN st
    ELSE
      LET class_name == objs[k].name
          mapping == IF DictHas(st.mapping, class_name) THEN st.mapping
                     ELSE DictSet(st.mapping, class_name, DiscoveryIndex(st.mapping))
          class_id == DictGet(mapping, class_name)
          b == objs[k].bndbox
          st1 == [st EXCEPT !.mapping = mapping]
      IN  IF InvalidBox(b) THEN P2YObjects(objs, size, tie, st1, k + 1)
          ELSE P2YObjects(objs, size, tie,
                 [st1 EXCEPT !.lines =
                     Append(@, [cls |-> class_id, of |-> class_name,
                                box |-> NormalizedFromCorner(b, size.width,
                                                             size.height, tie)])],
                 k + 1)

\* os.makedirs of the two directories; xml_files = [...]; if none: return
P2YStart ==
    /\ prog = "pascal_to_yolo" /\ pc = "start"
    /\ out_dirs' = MakeDirs(out_dirs, prog)
    /\ \E n \in 0..MaxFiles :
         /\ nfiles' = n
         /\ pc' = IF n = 0 THEN "done" ELSE "loop"
    /\ UNCHANGED <<inVars, run, idx, memVars, catalog, labels, classes_txt, xml_out,
                   splVars, rt>>

P2YFile ==
    /\ prog = "pascal_to_yolo" /\ pc = "loop" /\ idx < nfiles
    /\ idx' = idx + 1
    /\ \/ UNCHANGED <<memVars, outVars>>
       \/ \E filename \in FileNames, size \in ImageSizes, tie \in Ties,
             objs \in SeqsUpTo(VocObjects, MaxRecords - NRead) :
            LET st == P2YObjects(objs, size, tie,
                                 [mapping |-> category_mapping, lines |-> <<>>], 1)
                txt_filename == SplitExt(filename, ".txt")
            IN  /\ category_mapping' = st.mapping
                /\ labels' = WriteFile(labels,
                                [dir |-> LabelsDir, name |-> txt_filename], st.lines)
                /\ observed' = observed \o ObservedObjects(objs)
                /\ UNCHANGED <<coco_annotations, annotation_id, catalog,
                               classes_txt, xml_out, out_dirs>>
    /\ UNCHANGED <<inVars, pc, run, nfiles, splVars, rt>>

\* for class_name in class_mapping: f.write(f"{class_name}\n")
P2YFinish ==
    /\ prog = "pascal_to_yolo" /\ pc = "loop" /\ idx = nfiles
    /\ classes_txt' = <<DictKeys(category_mapping)>>
    /\ pc' = "done"
    /\ UNCHANGED <<inVars, run, nfiles, idx, memVars, catalog, labels, xml_out,
                   out_dirs, splVars, rt>>


-----------------------------------------------------------------------------
(* convert_yolo_to_coco (Yolo_to_coco.py). *)

\* classes.txt of the input directory
ClassLists == {<<"dog">>, <<"dog", "cat">>, <<"dog", "dog">>}

\* A label line: a wrong number of fields, five fields of which one is not
\* a number, or five numbers (the box values in units of 10^-6).
YoloBoxes ==
    { [xc |-> 500000, yc |-> 500000, w |-> 500000, h |-> 250000],
      [xc |-> 500000, yc |-> 500000, w |-> 0, h |-> 250000] }

YoloLines ==
    {[kind |-> "fields"], [kind |-> "text"]}
      \cup [kind : {"ok"}, cls : {0, 1}, box : YoloBoxes]

\* category_mapping = {name: idx + 1 for idx, name in enumerate(CLASS_NAMES)}
CategoryMappingOf(names) ==
    DictOf([i \in 1..Len(names) |-> [k |-> names[i], v |-> i]])

\* for name, cat_id in category_mapping.items(): categories.append(...)
CategoriesOf(mapping) ==
    [i \in 1..Len(mapping) |-> [id |-> mapping[i].v, name |-> mapping[i].k]]

\* "category_id": int(class_id) + 1
Y2CCategoryId(class_id) == class_id + 1

\* One pass of "for line in lines" from line k on ("area" is left out).
\* st = [coco, aid, crashed]
RECURSIVE Y2CLines(_, _, _, _, _)
Y2CLines(lines, img_id, size, st, k) ==
    IF k > Len(lines) THEN st
    ELSE IF lines[k].kind = "fields"
    THEN Y2CLines(lines, img_id, size, [st EXCEPT !.aid = SkippedAnnotationId(@)], k + 1)
    ELSE IF lines[k].kind = "text" THEN [st EXCEPT !.crashed = TRUE]
    ELSE
      LET b == lines[k].box
      IN  Y2CLines(lines, img_id, size,
            [st EXCEPT
               !.coco.annotations =
                   Append(@, [id |-> st.aid, image_id |-> img_id,
                              category_id |->
                                  Y2CCategoryId(lines[k].cls),
                              bbox |-> CocoFromNormalized(b.xc, b.yc, b.w, b.h,
                                                          size.width, size.height),
                              iscrowd |-> 0]),
               !.aid = NextAnnotationId(@)],
            k + 1)

\* The module's top (CLASS_NAMES, category_mapping) and the function's start.
Y2CStart ==
    /\ prog = "yolo_to_coco" /\ pc = "start" /\ artifact
    /\ out_dirs' = MakeDirs(out_dirs, prog)
    /\ \E names \in ClassLists, n \in 0..MaxFiles :
         /\ category_mapping' = CategoryMappingOf(names)
         /\ coco_annotations' =
                [coco_annotations EXCEPT
                   !.categories = CategoriesOf(CategoryMappingOf(names))]
         /\ nfiles' = n
    /\ pc' = "loop"
    /\ UNCHANGED <<inVars, run, idx, annotation_id, observed, catalog, labels,
                   classes_txt, xml_out, splVars, rt>>

\* One iteration of "for img_file in os.listdir(yolo_img_dir)": the file is
\* skipped (no image extension, no label file, unreadable), or converted.
Y2CFile ==
    /\ prog = "yolo_to_coco" /\ pc = "loop" /\ idx < nfiles
    /\ idx' = idx + 1
    /\ \/ UNCHANGED <<pc, memVars>>
       \/ \E img_file \in FileNames, size \in ImageSizes,
             lines \in SeqsUpTo(YoloLines, MaxRecords - NRead) :
            LET img_id == Len(coco_annotations.images) + 1
                st0 == [coco |-> [coco_annotations EXCEPT !.images =
                                    Append(@, [id |-> img_id, file_name |-> img_file,
                                               width |-> size.width,
                                               height |-> size.height])],
                        aid |-> annotation_id, crashed |-> FALSE]
                st == Y2CLines(lines, img_id, size, st0, 1)
            IN  /\ \A i \in 1..Len(coco_annotations.images) :
                      coco_annotations.images[i].file_name # img_file
                /\ coco_annotations' = st.coco
                /\ annotation_id' = st.aid
                /\ pc' = IF st.crashed THEN "crashed" ELSE pc
                /\ observed' = observed \o [i \in 1..Len(lines) |-> [kind |-> lines[i].kind]]
                /\ UNCHANGED category_mapping
    /\ UNCHANGED <<inVars, run, nfiles, outVars, splVars, rt>>

Y2CFinish ==
    /\ prog = "yolo_to_coco" /\ pc = "loop" /\ idx = nfiles
    /\ catalog' = <<coco_annotations>>
    /\ pc' = "done"
    /\ UNCHANGED <<inVars, run, nfiles, idx, memVars, labels, classes_txt, xml_out,
                   out_dirs, splVars, rt>>


-----------------------------------------------------------------------------
(* The JSON catalogs the coco_* scripts load. *)

Image1 == [id |-> 1, file_name |-> [stem |-> "a", ext |-> ".jpg"]]
Image2 == [id |-> 2, file_name |-> [stem |-> "b", ext |-> ".png"]]

CocoImageLists == {<<Image1>>, <<Image2, Image1>>}

\* the sets of image files that exist and can be read
Disks == {{Image1.file_name, Image2.file_name}, {Image1.file_name}}

CocoCategoryLists ==
    { <<[id |-> 1, name |-> "dog"]>>,
      <<[id |-> 1, name |-> "dog"], [id |-> 2, name |-> "cat"]>>,
      <<[id |-> 1, name |-> "cat"], [id |-> 2, name |-> "zebra"]>>,
      <<[id |-> 2, name |-> "dog"], [id |-> 1, name |-> "dog"]>> }

\* "bbox": a valid box and a box of width 0
CocoBoxes ==
    { [x |-> Px(1), y |-> Px(1), w |-> Px(2), h |-> Px(2)],
      [x |-> Px(1), y |-> Px(1), w |-> 0, h |-> Px(2)] }

CocoAnnotations == [image_id : {1, 2}, category_id : {1, 2}, bbox : CocoBoxes]

Catalogs ==
    [images : CocoImageLists, categories : CocoCategoryLists,
     annotations : SeqsUpTo(CocoAnnotations, MaxAnns)]

NoCatalog == [images |-> <<>>, categories |-> <<>>, annotations |-> <<>>]

\* cv2.imread(img_path).shape of a readable catalog image
ImgW == 4
ImgH == 4

\* images = {img["id"]: img["file_name"] for img in data["images"]}
ImagesDict(d) ==
    DictOf([i \in 1..Len(d.images) |-> [k |-> d.images[i].id, v |-> d.images[i].file_name]])

\* categories = {cat["id"]: cat["name"] for cat in data["categories"]}
CategoriesDict(d) ==
    DictOf([i \in 1..Len(d.categories) |->
               [k |-> d.categories[i].id, v |-> d.categories[i].name]])

\* the order of str: "cat" < "dog" < "zebra"
NameRank(name) == CASE name = "cat" -> 1 [] name = "dog" -> 2 [] name = "zebra" -> 3

\* sorted(names)
RECURSIVE Sorted(_)
Sorted(names) ==
    IF names = <<>> THEN <<>>
    ELSE LET i == CHOOSE i \in 1..Len(names) :
                     \A j \in 1..Len(names) :
                        /\ NameRank(names[i]) <= NameRank(names[j])
                        /\ (NameRank(names[i]) = NameRank(names[j]) => i <= j)
         IN  <<names[i]>> \o Sorted(SubSeq(names, 1, i - 1)
                                      \o SubSeq(names, i + 1, Len(names)))

DictValues(d) == [i \in 1..Len(d) |-> d[i].v]

\* {name: idx for idx, name in enumerate(class_list)}
ClassNameToId(class_list) ==
    DictOf([i \in 1..Len(class_list) |-> [k |-> class_list[i], v |-> i - 1]])

-----------------------------------------------------------------------------
(* convert_coco_to_yolo, the three scripts. *)

C2YProgs == {"coco_to_yolo", "coco_to_yolo_split", "coco_to_yoloo"}

\* coco_to_yoloo.py: CORRECT_CLASS_LIST
CORRECT_CLASS_LIST ==
    << "dog", "person", "train", "sofa", "chair", "car", "pottedplant",
       "diningtable", "horse", "cat", "cow", "bus", "bicycle", "motorbike",
       "bird", "tvmonitor", "sheep", "aeroplane", "boat", "bottle" >>

\* the class_list each script writes to classes.txt
\*   coco_to_yolo.py        sorted(categories.values())
\*   coco_to_yolo_split.py  list(categories.values())
\*   coco_to_yoloo.py       CORRECT_CLASS_LIST
ClassList(p, d) ==
    CASE p = "coco_to_yolo" -> Sorted(DictValues(CategoriesDict(d)))
      [] p = "coco_to_yolo_split" -> DictValues(CategoriesDict(d))
      [] p = "coco_to_yoloo" -> CORRECT_CLASS_LIST

\* the key of a label file: the labels directory of the script (or of the
\* partition) and the name made from the image's name
\*   coco_to_yolo.py   img_name.replace(".jpg", ".txt").replace(".png", ".txt")
\*   the other two     img_name.replace(".jpg", ".txt")
LabelName(p, img_name) ==
    IF p = "coco_to_yolo" THEN ReplacePng(ReplaceJpg(img_name, ".txt"), ".txt")
    ELSE ReplaceJpg(img_name, ".txt")

ValDir == "YOLO_Val/labels"
TestDir == "YOLO_Test/labels"

\* if img_id in val_ids: ... else: ...
LabelDir(p, img_id, vals) ==
    IF p = "coco_to_yolo_split"
    THEN (IF img_id \in vals THEN ValDir ELSE TestDir)
    ELSE LabelsDir

\* val_size = int(len(image_ids) * val_split), for val_split = num/den >= 0
ValSize(n, split) == (n * split[1]) \div split[2]

\* val_ids = set(image_ids[:val_size])
ValIds(image_ids, val_size) == {image_ids[i] : i \in 1..val_size}

\* A variant that leaves the first image after the validation slice out.
MutTestIds(image_ids, val_size) == {image_ids[i] : i \in (val_size + 2)..Len(image_ids)}

\* test_ids = set(image_ids[val_size:])
TestIds(image_ids, val_size) == {image_ids[i] : i \in (val_size + 1)..Len(image_ids)}

\* the outcomes of random.shuffle(image_ids): every order of the list
Shuffles(image_ids) ==
    {p \in [1..Len(image_ids) -> Range(image_ids)] :
        \A i, j \in 1..Len(image_ids) : p[i] = p[j] => i = j}

\* The load of the catalog and all that precedes the loop: the dicts, the
\* class list written to classes.txt and, in the split script, the shuffle.
C2YStart ==
    /\ prog \in C2YProgs /\ pc = "start" /\ artifact
    /\ out_dirs' = MakeDirs(out_dirs, prog)
    /\ classes_txt' = <<ClassList(prog, data)>>
    /\ IF prog = "coco_to_yolo_split"
       THEN \E image_ids \in Shuffles(DictKeys(ImagesDict(data))) :
              LET val_size == ValSize(Len(image_ids), val_split)
              IN  /\ val_ids' = ValIds(image_ids, val_size)
                  /\ test_ids' = TestIds(image_ids, val_size)
       ELSE UNCHANGED <<val_ids, test_ids>>
    /\ pc' = "loop"
    /\ UNCHANGED <<inVars, run, nfiles, idx, memVars, catalog, labels, xml_out,
                   prev_val_ids, rt>>

\* A variant in which every script writes the raw catalog id.
MutClassId(p, d, category_id) == category_id

\* the class id the script writes for an annotation of category name `name`
\* and catalog id `category_id`
\*   coco_to_yolo.py        class_name_to_id[coco_class_name]
\*   coco_to_yolo_split.py  ann['category_id']
\*   coco_to_yoloo.py       class_name_to_id[coco_class_name]
ClassId(p, d, category_id) ==
    CASE p = "coco_to_yolo" ->
            DictGet(ClassNameToId(ClassList(p, d)), DictGet(CategoriesDict(d), category_id))
      [] p = "coco_to_yolo_split" -> category_id
      [] p = "coco_to_yoloo" ->
            DictGet(ClassNameToId(CORRECT_CLASS_LIST), DictGet(CategoriesDict(d), category_id))

\* if coco_class_name not in class_name_to_id: continue   (coco_to_yoloo.py)
UnknownClass(p, d, category_id) ==
    /\ p = "coco_to_yoloo"
    /\ ~DictHas(ClassNameToId(CORRECT_CLASS_LIST), DictGet(CategoriesDict(d), category_id))

\* One iteration of "for ann in data['annotations']".
\*   images[img_id] of an id not in the catalog raises KeyError;
\*   an image that cannot be read is skipped;
\*   categories[ann["category_id"]] of an id not in the catalog raises
\*   KeyError (the split script never looks the category up);
\*   otherwise one line is appended to the image's label file.
\* A line holds the class id and the box; "ann" is history: the position of
\* the annotation the line was made from.
C2YAnnotation ==
    /\ prog \in C2YProgs /\ pc = "loop" /\ idx < Len(data.annotations)
    /\ LET ann == data.annotations[idx + 1]
           images == ImagesDict(data)
           categories == CategoriesDict(data)
       IN  IF ~DictHas(images, ann.image_id)
           THEN pc' = "crashed" /\ UNCHANGED <<idx, labels>>
           ELSE LET img_name == DictGet(images, ann.image_id) IN
             IF img_name \notin disk
             THEN idx' = idx + 1 /\ UNCHANGED <<pc, labels>>
             ELSE IF prog # "coco_to_yolo_split" /\ ~DictHas(categories, ann.category_id)
             THEN pc' = "crashed" /\ UNCHANGED <<idx, labels>>
             ELSE IF UnknownClass(prog, data, ann.category_id)
             THEN idx' = idx + 1 /\ UNCHANGED <<pc, labels>>
             ELSE /\ labels' =
                       AppendFile(labels,
                          [dir |-> LabelDir(prog, ann.image_id, val_ids),
                           name |-> LabelName(prog, img_name)],
                          [cls |-> ClassId(prog, data, ann.category_id),
                           box |-> NormalizedFromOriginSize(ann.bbox, ImgW, ImgH),
                           ann |-> idx + 1])
                  /\ idx' = idx + 1
                  /\ UNCHANGED pc
    /\ UNCHANGED <<inVars, run, nfiles, memVars, catalog, classes_txt, xml_out,
                   out_dirs, splVars, rt>>

\* the loop is over: the function returns
C2YFinish ==
    /\ prog \in C2YProgs /\ pc = "loop" /\ idx = Len(data.annotations)
    /\ pc' = "done"
    /\ UNCHANGED <<inVars, run, nfiles, idx, memVars, outVars, splVars, rt>>

\* The script is run again on the same catalog and the same output directory.
C2YRerun ==
    /\ prog \in C2YProgs /\ pc = "done" /\ run = 1
    /\ run' = 2
    /\ pc' = "start"
    /\ idx' = 0
    /\ prev_val_ids' = val_ids
    /\ UNCHANGED <<inVars, nfiles, memVars, outVars, val_ids, test_ids, rt>>


-----------------------------------------------------------------------------
(* convert_coco_to_pascal_voc (Coco_to_pascal.py). *)

\* One pass of "for ann in data['annotations']" for one image, from
\* annotation k on.  st = [objects, crashed]; "ann" is history.
RECURSIVE C2PObjects(_, _, _, _)
C2PObjects(d, img_id, st, k) ==
    IF k > Len(d.annotations) THEN st
    ELSE
      LET ann == d.annotations[k]
          c == CornerFromOriginSize(ann.bbox)
      IN  IF ann.image_id # img_id THEN C2PObjects(d, img_id, st, k + 1)
          ELSE IF ~DictHas(CategoriesDict(d), ann.category_id)
          THEN [st EXCEPT !.crashed = TRUE]
          ELSE C2PObjects(d, img_id,
                 [st EXCEPT !.objects =
                     Append(@, [name |-> DictGet(CategoriesDict(d), ann.category_id),
                                xmin |-> c.xmin, ymin |-> c.ymin,
                                xmax |-> c.xmax, ymax |-> c.ymax,
                                ann |-> k])],
                 k + 1)

\* img_name.replace(".jpg", ".xml").replace(".png", ".xml")
XmlName(img_name) == ReplacePng(ReplaceJpg(img_name, ".xml"), ".xml")

\* the two os.makedirs of the module's top, json.load and the two dicts
C2PStart ==
    /\ prog = "coco_to_pascal" /\ pc = "start" /\ artifact
    /\ out_dirs' = MakeDirs(out_dirs, prog)
    /\ pc' = "loop"
    /\ UNCHANGED <<inVars, run, nfiles, idx, memVars, catalog, labels, classes_txt,
                   xml_out, splVars, rt>>

\* One iteration of "for img_id, img_name in images.items()".
C2PImage ==
    /\ prog = "coco_to_pascal" /\ pc = "loop" /\ idx < Len(ImagesDict(data))
    /\ LET img_id == ImagesDict(data)[idx + 1].k
           img_name == ImagesDict(data)[idx + 1].v
           st == C2PObjects(data, img_id, [objects |-> <<>>, crashed |-> FALSE], 1)
       IN  IF img_name \notin disk
           THEN idx' = idx + 1 /\ UNCHANGED <<pc, xml_out>>
           ELSE IF st.crashed
           THEN pc' = "crashed" /\ UNCHANGED <<idx, xml_out>>
           ELSE /\ xml_out' =
                     WriteFile(xml_out, XmlName(img_name),
                               [filename |-> img_name, width |-> ImgW,
                                height |-> ImgH, objects |-> st.objects])
                /\ idx' = idx + 1
                /\ UNCHANGED pc
    /\ UNCHANGED <<inVars, run, nfiles, memVars, catalog, labels, classes_txt,
                   out_dirs, splVars, rt>>

C2PFinish ==
    /\ prog = "coco_to_pascal" /\ pc = "loop" /\ idx = Len(ImagesDict(data))
    /\ pc' = "done"
    /\ UNCHANGED <<inVars, run, nfiles, idx, memVars, outVars, splVars, rt>>

-----------------------------------------------------------------------------
(* convert_yolo_to_pascal_voc (Yolo_to_pascal.py). *)

\* The module's top (CLASS_NAMES, the two os.makedirs) and os.listdir.
Y2PStart ==
    /\ prog = "yolo_to_pascal" /\ pc = "start" /\ artifact
    /\ out_dirs' = MakeDirs(out_dirs, prog)
    /\ \E n \in 0..MaxFiles : nfiles' = n
    /\ pc' = "loop"
    /\ UNCHANGED <<inVars, run, idx, memVars, catalog, labels, classes_txt, xml_out,
                   splVars, rt>>

\* One iteration of "for img_file in os.listdir(yolo_img_dir)": pass
Y2PFile ==
    /\ prog = "yolo_to_pascal" /\ pc = "loop" /\ idx < nfiles
    /\ idx' = idx + 1
    /\ UNCHANGED <<inVars, pc, run, nfiles, memVars, outVars, splVars, rt>>

\* the loop is over: the function returns
Y2PFinish ==
    /\ prog = "yolo_to_pascal" /\ pc = "loop" /\ idx = nfiles
    /\ pc' = "done"
    /\ UNCHANGED <<inVars, run, nfiles, idx, memVars, outVars, splVars, rt>>

-----------------------------------------------------------------------------
(* One run of one script. *)

DirProgs == {"pascal_to_coco", "pascal_to_yolo", "yolo_to_coco", "yolo_to_pascal"}

\* the scripts whose top looks for a file and raises when there is none:
\* a .json catalog (coco_*), classes.txt (yolo_*)
ArtifactProgs ==
    {"coco_to_yolo", "coco_to_yolo_split", "coco_to_yoloo", "coco_to_pascal",
     "yolo_to_coco", "yolo_to_pascal"}

\* raise FileNotFoundError(...), at the module's top
RaiseFileNotFound ==
    /\ prog \in ArtifactProgs /\ pc = "start" /\ ~artifact
    /\ pc' = "raised"
    /\ UNCHANGED <<inVars, run, nfiles, idx, memVars, outVars, splVars, rt>>

CocoProgs == C2YProgs \cup {"coco_to_pascal"}

\* VAL_SPLIT = 0.2, and one half
ValSplits == {<<1, 5>>, <<1, 2>>}

RtIdle == [pc |-> "idle"]

\* the state of a run before its first step
RunInit ==
    /\ pc = "start"
    /\ run = 1
    /\ nfiles = 0
    /\ idx = 0
    /\ coco_annotations = EmptyCoco
    /\ category_mapping = EmptyDict
    /\ annotation_id = 1
    /\ observed = <<>>
    /\ catalog = <<>>
    /\ labels = NoFiles
    /\ classes_txt = <<>>
    /\ xml_out = NoFiles
    /\ out_dirs = {}
    /\ val_ids = {}
    /\ test_ids = {}
    /\ prev_val_ids = {}

Init ==
    /\ prog \in DirProgs \cup CocoProgs
    /\ artifact \in (IF prog \in ArtifactProgs THEN BOOLEAN ELSE {TRUE})
    /\ IF prog \in CocoProgs /\ artifact
       THEN data \in Catalogs /\ disk \in Disks
       ELSE data = NoCatalog /\ disk = {}
    /\ IF prog = "coco_to_yolo_split"
       THEN val_split \in ValSplits
       ELSE val_split = <<0, 1>>
    /\ RunInit
    /\ rt = RtIdle

Next ==
    \/ P2CStart \/ P2CFile \/ P2CFinish
    \/ P2YStart \/ P2YFile \/ P2YFinish
    \/ Y2CStart \/ Y2CFile \/ Y2CFinish
    \/ C2YStart \/ C2YAnnotation \/ C2YFinish \/ C2YRerun
    \/ C2PStart \/ C2PImage \/ C2PFinish
    \/ Y2PStart \/ Y2PFile \/ Y2PFinish
    \/ RaiseFileNotFound

Spec == Init /\ [][Next]_vars


-----------------------------------------------------------------------------
(* The box algebra on its own: the conversions of the scripts applied to   *)
(* one box, over a range of boxes and image sizes wider than the runs'.    *)

\* box coordinates reach from 0 (or -MaxCoord) to MaxCoord
MaxCoord == 4
\* every image width and height up to MaxDim is tried
MaxDim == 4

NoRun ==
    /\ prog = "none" /\ data = NoCatalog /\ disk = {} /\ val_split = <<0, 1>>
    /\ artifact = TRUE
    /\ RunInit

runVars == <<inVars, ctlVars, memVars, outVars, splVars>>

\* Catalog boxes [x, y, w, h] in 1/Sub of a pixel: whole and fractional,
\* negative origins, empty and negative sizes.
RtOriginSizes ==
    [x : -MaxCoord..MaxCoord, y : {-1, 0, Sub + 1},
     w : -1..MaxCoord, h : {-Sub, 0, 1, Px(2)}]

InitCorner ==
    /\ NoRun
    /\ \E b \in RtOriginSizes : rt = [pc |-> "catalog", bbox |-> b]

\* Coco_to_pascal.py writes the box of a catalog annotation as corners
RtToCorner ==
    /\ rt.pc = "catalog"
    /\ rt' = [pc |-> "xml", bbox |-> rt.bbox, corner |-> CornerFromOriginSize(rt.bbox)]
    /\ UNCHANGED runVars

\* Pascal_to_coco.py reads the corners back: the box is skipped or written
RtToOriginSize ==
    /\ rt.pc = "xml"
    /\ rt' = IF InvalidBox(rt.corner)
             THEN [pc |-> "skipped", bbox |-> rt.bbox, corner |-> rt.corner]
             ELSE [pc |-> "back", bbox |-> rt.bbox, corner |-> rt.corner,
                   back |-> OriginSizeFromCorner(rt.corner)]
    /\ UNCHANGED runVars

NextCorner == RtToCorner \/ RtToOriginSize

SpecCorner == InitCorner /\ [][NextCorner]_vars

\* Image widths and heights: the small ones, widths at which a printed value
\* is an exact tie (64: of an exact float, 320: of an inexact one), and two
\* very wide ones.  One side of an image is small (an image library refuses
\* to open more than some 10^8 pixels).
LargeDims == {64, 320, 666666, 1500000}

RtSizes ==
    {s \in [width : (1..MaxDim) \cup LargeDims, height : (1..MaxDim) \cup LargeDims] :
        s.width <= MaxDim \/ s.height <= MaxDim}

\* XML boxes: corners within the image, xmin <= xmax and ymin <= ymax
RtCorners(s) ==
    {b \in [xmin : 0..MaxCoord, ymin : 0..MaxCoord,
            xmax : 0..MaxCoord, ymax : 0..MaxCoord] :
        /\ b.xmin <= b.xmax /\ b.xmax <= s.width
        /\ b.ymin <= b.ymax /\ b.ymax <= s.height}

InitNorm ==
    /\ NoRun
    /\ \E s \in RtSizes : \E b \in RtCorners(s) :
          rt = [pc |-> "xml", size |-> s, corner |-> b]

\* Pascal_to_yolo.py: the box is skipped, or printed as a label line
RtNormalize ==
    /\ rt.pc = "xml"
    /\ \E tie \in Ties :
         rt' = IF InvalidBox(rt.corner)
               THEN [pc |-> "skipped", size |-> rt.size, corner |-> rt.corner]
               ELSE [pc |-> "label", size |-> rt.size, corner |-> rt.corner,
                     line |-> NormalizedFromCorner(rt.corner, rt.size.width,
                                                   rt.size.height, tie)]
    /\ UNCHANGED runVars

\* Yolo_to_coco.py reads the line back
RtDenormalize ==
    /\ rt.pc = "label"
    /\ rt' = [pc |-> "back", size |-> rt.size, corner |-> rt.corner, line |-> rt.line,
              back |-> CocoFromNormalized(rt.line.xc, rt.line.yc, rt.line.w, rt.line.h,
                                          rt.size.width, rt.size.height)]
    /\ UNCHANGED runVars

NextNorm == RtNormalize \/ RtDenormalize

SpecNorm == InitNorm /\ [][NextNorm]_vars

\* The chain JSON catalog -> XML -> label line on the image of the docstring
\* of Coco_to_pascal.py (640 x 480) and on one of half its size, over boxes
\* around xmin=100, ymin=150, xmax=300, ymax=400.
ChainSizes == {[width |-> 640, height |-> 480], [width |-> 320, height |-> 240]}

ChainOriginSizes ==
    [x : {0, Px(50), Px(100)}, y : {0, Px(150)},
     w : {0, Px(100), Px(200)}, h : {Px(125), Px(250)}]

InitChain ==
    /\ NoRun
    /\ \E s \in ChainSizes, b \in ChainOriginSizes :
          rt = [pc |-> "catalog", size |-> s, bbox |-> b]

\* Coco_to_pascal.py writes the box of the catalog annotation as corners
ChainToCorner ==
    /\ rt.pc = "catalog"
    /\ rt' = [pc |-> "xml", size |-> rt.size, bbox |-> rt.bbox,
              corner |-> CornerFromOriginSize(rt.bbox)]
    /\ UNCHANGED runVars

\* Pascal_to_yolo.py reads the corners: the box is skipped, or printed
ChainNormalize ==
    /\ rt.pc = "xml"
    /\ \E tie \in Ties :
         rt' = IF InvalidBox(rt.corner)
               THEN [pc |-> "skipped", size |-> rt.size, bbox |-> rt.bbox,
                     corner |-> rt.corner]
               ELSE [pc |-> "label", size |-> rt.size, bbox |-> rt.bbox,
                     corner |-> rt.corner,
                     line |-> NormalizedFromCorner(rt.corner, rt.size.width,
                                                   rt.size.height, tie)]
    /\ UNCHANGED runVars

NextChain == ChainToCorner \/ ChainNormalize

SpecChain == InitChain /\ [][NextChain]_vars

-----------------------------------------------------------------------------
(* Properties of the runs (Spec). *)

\* the written catalog's annotations: none while no catalog is written
WrittenAnnotations == IF catalog = <<>> THEN <<>> ELSE catalog[1].annotations

\* the category name of catalog annotation k, when its category_id is a
\* category of the catalog
HasName(k) == DictHas(CategoriesDict(data), data.annotations[k].category_id)

NameOf(k) == DictGet(CategoriesDict(data), data.annotations[k].category_id)

\* the distinct elements of a sequence, in the order of their first places
RECURSIVE FirstSeen(_)
FirstSeen(names) ==
    IF names = <<>> THEN <<>>
    ELSE LET front == FirstSeen(SubSeq(names, 1, Len(names) - 1))
             last == names[Len(names)]
         IN  IF last \in Range(front) THEN front ELSE Append(front, last)

ObservedNames == [i \in 1..Len(observed) |-> observed[i].name]

\* C1: in a catalog written by pascal_voc_to_coco or convert_yolo_to_coco the
\* annotation ids are 1, 2, ..., n in output order, and the counter stands at
\* n + 1: a skipped record (degenerate box, wrong field count, XML file without
\* image) consumes no id.
C1_AnnotationIdsContiguous ==
    (prog \in {"pascal_to_coco", "yolo_to_coco"} /\ catalog # <<>>) =>
        /\ \A i \in 1..Len(WrittenAnnotations) : WrittenAnnotations[i].id = i
        /\ annotation_id = Len(WrittenAnnotations) + 1

\* C1 witness: pascal_voc_to_coco wrote a catalog in which an object with a
\* degenerate box was skipped before a later object was written.
C1_Witness ==
    /\ prog = "pascal_to_coco" /\ catalog # <<>>
    /\ Len(WrittenAnnotations) >= 2
    /\ \E i, j \in 1..Len(observed) : i < j /\ ~observed[i].valid /\ observed[j].valid

\* C2: no box with w <= 0 or h <= 0 reaches an output of the converters that
\* read a JSON catalog or label files: no label line and no XML object is made
\* from such a catalog annotation, and no annotation of a catalog written by
\* convert_yolo_to_coco has such a box (its w and h have the sign of the label
\* line's, the image's size being positive).
C2_NoDegenerateWritten ==
    /\ prog \in C2YProgs =>
         \A f \in DOMAIN labels : \A i \in 1..Len(labels[f]) :
            LET b == data.annotations[labels[f][i].ann].bbox
            IN  b.w > 0 /\ b.h > 0
    /\ prog = "coco_to_pascal" =>
         \A f \in DOMAIN xml_out : \A i \in 1..Len(xml_out[f].objects) :
            LET b == data.annotations[xml_out[f].objects[i].ann].bbox
            IN  b.w > 0 /\ b.h > 0
    /\ prog = "yolo_to_coco" =>
         \A i \in 1..Len(WrittenAnnotations) :
            WrittenAnnotations[i].bbox.w.n > 0 /\ WrittenAnnotations[i].bbox.h.n > 0

\* C3: in a written catalog every annotation's image_id is the id of exactly
\* one entry of images[] and its category_id the id of exactly one entry of
\* categories[].
C3_ReferencesResolve ==
    catalog # <<>> =>
        \A i \in 1..Len(catalog[1].annotations) :
            LET a == catalog[1].annotations[i]
            IN  /\ Cardinality({j \in 1..Len(catalog[1].images) :
                                    catalog[1].images[j].id = a.image_id}) = 1
                /\ Cardinality({j \in 1..Len(catalog[1].categories) :
                                    catalog[1].categories[j].id = a.category_id}) = 1

\* C4: when a run to normalized text has ended, the class index of every label
\* line is the 0-based line number, in the classes.txt of the run, of the name
\* of the category of the annotation the line was made from.
C4_ClassIndexIsClassesLine ==
    (pc = "done" /\ prog \in C2YProgs \cup {"pascal_to_yolo"}) =>
        \A f \in DOMAIN labels : \A i \in 1..Len(labels[f]) :
            LET line == labels[f][i]
            IN  /\ classes_txt # <<>>
                /\ line.cls + 1 \in 1..Len(classes_txt[1])
                /\ IF prog = "pascal_to_yolo"
                   THEN classes_txt[1][line.cls + 1] = line.of
                   ELSE HasName(line.ann) /\ classes_txt[1][line.cls + 1] = NameOf(line.ann)

\* C5: two runs of the split script on the same catalog with the same fraction
\* put the same image ids in val_ids.
C5_SamePartition ==
    (prog = "coco_to_yolo_split" /\ run = 2 /\ pc # "start") => val_ids = prev_val_ids

\* C6: after the shuffle of the split script, val_ids and test_ids are disjoint
\* and their union is the set of the image ids of the catalog.
C6_PartitionComplete ==
    (prog = "coco_to_yolo_split" /\ pc # "start") =>
        /\ val_ids \cap test_ids = {}
        /\ val_ids \cup test_ids = {data.images[i].id : i \in 1..Len(data.images)}

\* C6 witness: the split has put an image on each side.
C6_Witness ==
    /\ prog = "coco_to_yolo_split" /\ pc = "loop"
    /\ val_ids # {} /\ test_ids # {}

\* C7: in pascal_voc_to_coco and pascal_voc_to_yolo the mapping from names to
\* ids is given by the sequence of the object names read: the k-th distinct
\* name has id k (k - 1 in pascal_voc_to_yolo), at every point of the run.
C7_IdsInFirstSeenOrder ==
    prog \in {"pascal_to_coco", "pascal_to_yolo"} =>
        /\ DictKeys(category_mapping) = FirstSeen(ObservedNames)
        /\ \A k \in 1..Len(category_mapping) :
              category_mapping[k].v = IF prog = "pascal_to_coco" THEN k ELSE k - 1

\* C7 witness: two names have ids and one of them was read again.
C7_Witness ==
    /\ prog \in {"pascal_to_coco", "pascal_to_yolo"}
    /\ Len(category_mapping) = 2
    /\ Len(observed) = 3
    /\ observed[3].name = observed[1].name /\ observed[2].name # observed[1].name

\* C8: in coco_to_yoloo.py every label line was made from an annotation whose
\* category name is in CORRECT_CLASS_LIST and carries the 0-based position of
\* that name in the list; classes.txt is the list itself (no id is added).
C8_FixedSchema ==
    prog = "coco_to_yoloo" =>
        /\ \A f \in DOMAIN labels : \A i \in 1..Len(labels[f]) :
              LET line == labels[f][i]
              IN  /\ HasName(line.ann)
                  /\ line.cls + 1 \in 1..Len(CORRECT_CLASS_LIST)
                  /\ CORRECT_CLASS_LIST[line.cls + 1] = NameOf(line.ann)
        /\ classes_txt \in {<<>>, <<CORRECT_CLASS_LIST>>}

\* C8 witness: the run passed an annotation of a readable image whose category
\* name is not in the list, and wrote the line of another annotation.
C8_Witness ==
    /\ prog = "coco_to_yoloo" /\ pc = "done" /\ run = 1
    /\ \E k \in 1..Len(data.annotations) :
          /\ DictHas(ImagesDict(data), data.annotations[k].image_id)
          /\ DictGet(ImagesDict(data), data.annotations[k].image_id) \in disk
          /\ HasName(k) /\ NameOf(k) \notin Range(CORRECT_CLASS_LIST)
    /\ \E f \in DOMAIN labels : \E i \in 1..Len(labels[f]) : labels[f][i].cls = 9

-----------------------------------------------------------------------------
(* Properties of the box algebra (SpecCorner, SpecNorm). *)

\* C9: a catalog box of whole numbers with w > 0 and h > 0, written as corners
\* by convert_coco_to_pascal_voc and read back by pascal_voc_to_coco, is
\* not skipped and comes back as the same (x, y, w, h).
C9_CornerRoundTrip ==
    (/\ rt.pc \in {"skipped", "back"}
     /\ \A c \in {"x", "y", "w", "h"} : rt.bbox[c] % Sub = 0
     /\ rt.bbox.w > 0 /\ rt.bbox.h > 0) =>
        /\ rt.pc = "back"
        /\ \A c \in {"x", "y", "w", "h"} : Px(rt.back[c]) = rt.bbox[c]

\* C9 witness: a whole box with a negative origin came back.
C9_Witness ==
    /\ rt.pc = "back"
    /\ \A c \in {"x", "y", "w", "h"} : rt.bbox[c] % Sub = 0
    /\ rt.bbox.x < 0 /\ rt.bbox.w > 0 /\ rt.bbox.h > 0

\* the four corners read back are each within half a pixel of the box printed
\* (back.x and back.y count 1/(2 Micro) of a pixel, back.w and back.h 1/Micro)
WithinHalfPixel ==
    /\ Abs(rt.back.x.n - 2 * Micro * rt.corner.xmin) <= Micro
    /\ Abs(rt.back.y.n - 2 * Micro * rt.corner.ymin) <= Micro
    /\ Abs(rt.back.x.n + 2 * rt.back.w.n - 2 * Micro * rt.corner.xmax) <= Micro
    /\ Abs(rt.back.y.n + 2 * rt.back.h.n - 2 * Micro * rt.corner.ymax) <= Micro

\* C10 as stated: every box within its image, printed by pascal_voc_to_yolo and
\* read back by convert_yolo_to_coco, comes back within half a pixel, whatever
\* the size of the image.
C10_RoundTripAnySize ==
    rt.pc = "back" => WithinHalfPixel

\* C10 as amended: the same for images of width and height up to 666666.
C10_RoundTripBoundedSize ==
    (rt.pc = "back" /\ rt.size.width <= 666666 /\ rt.size.height <= 666666) =>
        WithinHalfPixel

\* C10 witness: a box of a 666666 wide image came back, not exactly.
C10_Witness ==
    /\ rt.pc = "back" /\ rt.size.width = 666666
    /\ rt.back.x.n # 2 * Micro * rt.corner.xmin

\* the box [100, 150, 200, 250] of a 640 x 480 image went down the chain
ChainExample ==
    /\ rt.pc \in {"skipped", "label"}
    /\ rt.size = [width |-> 640, height |-> 480]
    /\ rt.bbox = [x |-> Px(100), y |-> Px(150), w |-> Px(200), h |-> Px(250)]

\* C11: on a 640 x 480 image convert_coco_to_pascal_voc writes the catalog box
\* [100, 150, 200, 250] as xmin=100, ymin=150, xmax=300, ymax=400, and
\* pascal_voc_to_yolo prints that box as 0.312500 0.572917 0.312500 0.520833.
C11_EndToEndExample ==
    ChainExample =>
        /\ rt.pc = "label"
        /\ rt.corner = [xmin |-> 100, ymin |-> 150, xmax |-> 300, ymax |-> 400]
        /\ rt.line = [xc |-> 312500, yc |-> 572917, w |-> 312500, h |-> 520833]

\* C11 witness: the box of the example was printed.
C11_Witness ==
    ChainExample /\ rt.pc = "label" /\ rt.line.yc = 572917

\* the well-formed label lines read so far
OkLinesRead == {i \in 1..Len(observed) : observed[i].kind = "ok"}

\* C12: when a run of convert_yolo_to_coco has ended, the catalog is written and
\* holds one annotation for each well-formed label line read: a malformed line
\* (a wrong number of fields, a field that is not a number) has ended neither
\* its file nor the run.
C12_MalformedLineSkipped ==
    (prog = "yolo_to_coco" /\ pc \in {"done", "crashed"}) =>
        /\ catalog # <<>>
        /\ Len(WrittenAnnotations) = Cardinality(OkLinesRead)

\* catalog annotation k is valid: its image is an image of the catalog that
\* can be read, its category a category of the catalog (and, in coco_to_yoloo.py,
\* of the fixed list), its box has a width and a height
ValidAnnotation(k) ==
    LET ann == data.annotations[k]
    IN  /\ DictHas(ImagesDict(data), ann.image_id)
        /\ DictGet(ImagesDict(data), ann.image_id) \in disk
        /\ HasName(k)
        /\ prog = "coco_to_yoloo" => NameOf(k) \in Range(CORRECT_CLASS_LIST)
        /\ ann.bbox.w > 0 /\ ann.bbox.h > 0

\* the label lines / XML objects made from catalog annotation k
LinesOf(k) ==
    {fi \in UNION {{f} \X (1..Len(labels[f])) : f \in DOMAIN labels} :
        labels[fi[1]][fi[2]].ann = k}

ObjectsOf(k) ==
    {fi \in UNION {{f} \X (1..Len(xml_out[f].objects)) : f \in DOMAIN xml_out} :
        xml_out[fi[1]].objects[fi[2]].ann = k}

\* C13: when a run of a JSON-catalog reader has ended, every valid annotation
\* of the catalog is in the output, whatever the other annotations are: an
\* annotation of an unknown category or an unknown image was skipped.
C13_PerRecordRecovery ==
    (prog \in CocoProgs /\ pc \in {"done", "crashed"}) =>
        \A k \in 1..Len(data.annotations) :
            ValidAnnotation(k) =>
                IF prog = "coco_to_pascal" THEN ObjectsOf(k) # {} ELSE LinesOf(k) # {}

\* the run met an artifact-level error: the script's top found no catalog or
\* no classes.txt, or the function found no XML file
ArtifactError ==
    \/ pc = "raised"
    \/ prog \in {"pascal_to_coco", "pascal_to_yolo"} /\ pc = "done" /\ nfiles = 0

\* C14: a run that met an artifact-level error has made no output directory
\* and written no output file.
C14_ArtifactErrorNoOutput ==
    ArtifactError =>
        /\ out_dirs = {}
        /\ catalog = <<>> /\ classes_txt = <<>>
        /\ labels = NoFiles /\ xml_out = NoFiles

\* C15: a run of convert_yolo_to_pascal_voc over an image directory that is
\* not empty does not return normally without an XML file written.
C15_NoSilentNoOp ==
    (prog = "yolo_to_pascal" /\ pc = "done" /\ nfiles > 0) => xml_out # NoFiles

\* the label files written for an image: those of its stem, in any directory
LabelFilesOf(img_name) == {f \in DOMAIN labels : f.name.stem = img_name.stem}

\* the valid annotations of an image
ValidAnnotationsOf(img_id) ==
    {k \in 1..Len(data.annotations) :
        data.annotations[k].image_id = img_id /\ ValidAnnotation(k)}

\* C16: after a first run of convert_coco_to_yolo that returned, every image of
\* the catalog that can be read has exactly one label file, its name the
\* image's with the extension replaced by .txt, with one line for each valid
\* annotation of the image (none for an image without annotations).
C16_OneLabelFilePerImage ==
    (prog \in C2YProgs /\ pc = "done" /\ run = 1) =>
        \A j \in 1..Len(ImagesDict(data)) :
            LET img_id == ImagesDict(data)[j].k
                img_name == ImagesDict(data)[j].v
            IN  img_name \in disk =>
                  /\ Cardinality(LabelFilesOf(img_name)) = 1
                  /\ \A f \in LabelFilesOf(img_name) :
                        /\ f.name = SplitExt(img_name, ".txt")
                        /\ Len(labels[f]) = Cardinality(ValidAnnotationsOf(img_id))

\* the iteration of convert_coco_to_yolo on catalog annotation k raises KeyError
Raises(k) ==
    LET ann == data.annotations[k]
    IN  \/ ~DictHas(ImagesDict(data), ann.image_id)
        \/ /\ DictGet(ImagesDict(data), ann.image_id) \in disk
           /\ prog # "coco_to_yolo_split"
           /\ ~HasName(k)

\* the label file to which a run of convert_coco_to_yolo left to itself writes
\* the line of annotation k, if it writes one
FinalLinesOf(f) ==
    {k \in 1..Len(data.annotations) :
        /\ \A j \in 1..k : ~Raises(j)
        /\ DictGet(ImagesDict(data), data.annotations[k].image_id) \in disk
        /\ ~UnknownClass(prog, data, data.annotations[k].category_id)
        /\ f = [dir |-> LabelDir(prog, data.annotations[k].image_id, val_ids),
                name |-> LabelName(prog, DictGet(ImagesDict(data),
                                                 data.annotations[k].image_id))]}

\* the objects convert_coco_to_pascal_voc writes to an XML file
FinalObjectsOf(f) ==
    {k \in 1..Len(data.annotations) :
        /\ DictHas(ImagesDict(data), data.annotations[k].image_id)
        /\ f = XmlName(DictGet(ImagesDict(data), data.annotations[k].image_id))}

\* C17: between two iterations of the loop of a first run, every per-image
\* output file that exists is complete: a label file holds the lines of all
\* the annotations the finished run writes to it, an XML file all the objects
\* of its image.
C17_FilesCompleteBetweenIterations ==
    (pc = "loop" /\ run = 1) =>
        /\ prog \in C2YProgs =>
              \A f \in DOMAIN labels :
                 {labels[f][i].ann : i \in 1..Len(labels[f])} = FinalLinesOf(f)
        /\ prog = "coco_to_pascal" =>
              \A f \in DOMAIN xml_out :
                 {xml_out[f].objects[i].ann : i \in 1..Len(xml_out[f].objects)}
                     = FinalObjectsOf(f)

\* the image of catalog annotation k is an image of the catalog that can be read
ImageReadable(k) ==
    /\ DictHas(ImagesDict(data), data.annotations[k].image_id)
    /\ DictGet(ImagesDict(data), data.annotations[k].image_id) \in disk

\* C18: when a first run of the split script has ended, every annotation whose
\* image can be read has exactly one label line, in the labels directory of
\* the partition that holds its image_id.
C18_SplitKeepsAnnotations ==
    (prog = "coco_to_yolo_split" /\ run = 1 /\ pc \in {"done", "crashed"}) =>
        \A k \in 1..Len(data.annotations) :
            ImageReadable(k) =>
                /\ Cardinality(LinesOf(k)) = 1
                /\ \A fi \in LinesOf(k) :
                      fi[1].dir = IF data.annotations[k].image_id \in val_ids
                                  THEN ValDir ELSE TestDir

\* the names of the objects read from place n on whose box passed the check
RECURSIVE ValidNamesFrom(_, _)
ValidNamesFrom(obs, n) ==
    IF n > Len(obs) THEN <<>>
    ELSE (IF obs[n].valid THEN <<obs[n].name>> ELSE <<>>) \o ValidNamesFrom(obs, n + 1)

\* the catalog boxes of the XML boxes with xmax > xmin and ymax > ymin
ProperBoxes ==
    {OriginSizeFromCorner(b) : b \in {v \in VocBoxes : v.xmax > v.xmin /\ v.ymax > v.ymin}}

\* pascal_voc_to_coco: one annotation for each object read whose box passed
\* the check, in order, each with w > 0, h > 0 and area = w * h > 0
P2CAnnotationsProper ==
    prog = "pascal_to_coco" =>
        /\ Len(coco_annotations.annotations) = Len(ValidNamesFrom(observed, 1))
        /\ \A i \in 1..Len(coco_annotations.annotations) :
              LET a == coco_annotations.annotations[i]
              IN  /\ a.bbox \in ProperBoxes
                  /\ a.bbox.w > 0 /\ a.bbox.h > 0
                  /\ a.area = a.bbox.w * a.bbox.h /\ a.area > 0

\* pascal_voc_to_yolo: every line has a width and a height
P2YLinesProper ==
    prog = "pascal_to_yolo" =>
        \A f \in DOMAIN labels : \A i \in 1..Len(labels[f]) :
            labels[f][i].box.w > 0 /\ labels[f][i].box.h > 0

\* pascal_voc_to_yolo: the step that reads the objects of a file writes a
\* label file with one line for each object whose box passed the check, in
\* order, and none for the others
P2YFileStepProper ==
    (prog = "pascal_to_yolo" /\ observed' # observed) =>
        \E f \in DOMAIN labels' :
            [i \in 1..Len(labels'[f]) |-> labels'[f][i].of]
                = ValidNamesFrom(observed', Len(observed) + 1)

\* C19: every annotation written by pascal_voc_to_coco has w > 0, h > 0 and
\* area = w * h > 0, every label line of pascal_voc_to_yolo comes from a box
\* with xmax > xmin and ymax > ymin, and an object with xmax <= xmin or
\* ymax <= ymin gives no record while the other objects of its file are written.
C19_PascalDegenerateSkipped ==
    [](P2CAnnotationsProper /\ P2YLinesProper) /\ [][P2YFileStepProper]_vars

\* C19 witness: pascal_voc_to_yolo read a file of three objects, the second
\* with a degenerate box, and wrote a label file of two lines.
C19_Witness ==
    /\ prog = "pascal_to_yolo" /\ nfiles = 1 /\ idx = 1
    /\ Len(observed) = 3
    /\ observed[1].valid /\ ~observed[2].valid /\ observed[3].valid
    /\ \E f \in DOMAIN labels : Len(labels[f]) = 2

\* C20: a label file of coco_to_yolo.py never holds two lines made from the
\* same annotation, also after the script was run a second time on the same
\* catalog into the same output directory.
C20_RerunIdempotent ==
    prog = "coco_to_yolo" =>
        \A f \in DOMAIN labels : \A i, j \in 1..Len(labels[f]) :
            labels[f][i].ann = labels[f][j].ann => i = j

====
